---- MODULE Spec2Model ----
(***************************************************************************)
(* Model of the legit-city backend (server.js): the HTTP handlers for     *)
(* registration, login, plans, services, announcements, work uploads and  *)
(* subscriptions, the relational tables they write, the uploads directory *)
(* and the currency rate lookup.                                          *)
(*                                                                         *)
(* A handler that touches the store once is one action: its answer is a  *)
(* function of that one statement.  Two handlers do more and are several  *)
(* actions, with other requests handled in between:                       *)
(*   - POST /api/work: multer names and stores the file part, and only    *)
(*     then is the handler called, which validates and awaits the INSERT; *)
(*   - GET /api/plans: the handler awaits the SELECT and then, for a      *)
(*     currency other than the base one, awaits the rate service.         *)
(* The inputs of a request (its body, whether the store answers, whether  *)
(* the rate service answers and with what) are chosen with \E.            *)
(*                                                                         *)
(* There are two clocks.  The store's CURRENT_TIMESTAMP, precise to the   *)
(* second, stamps created_at when an INSERT is executed.  Date.now() of   *)
(* the server process, precise to the millisecond, prefixes the name of   *)
(* an uploaded file when multer names it.  Each is the latest value read, *)
(* and a read gives that value or a later one; the two advance apart.     *)
(* Prices are amounts in cents.                                           *)
(***************************************************************************)
EXTENDS Integers, Sequences, FiniteSets, Bags, TLC

VARIABLES
    users,          \* table users: sequence of rows, in insertion order
    plans,          \* table plans
    services,       \* table services
    announcements,  \* table announcements
    work,           \* table work
    subscriptions,  \* table subscriptions
    uploads,        \* the uploads directory: the set of file names in it
    now,            \* the store's clock: the latest CURRENT_TIMESTAMP
                    \* an INSERT was stamped with, in seconds
    dateNow,        \* the server's clock: the latest Date.now() a file
                    \* was named with, in milliseconds
    uploading,      \* the bag of uploads whose file part multer has
                    \* handled and whose handler has not run yet
    listing,        \* the bag of plan listings that hold the rows of
                    \* their SELECT and await the rate service
    req,            \* the request handled last
    resp,           \* the response sent to it
    outbound,       \* calls made to the rate service while handling it
    lists           \* per list route: the rows it returned first since
                    \* the last write request, if it was called since

tables == <<users, plans, services, announcements, work, subscriptions>>
store == <<users, plans, services, announcements, work, subscriptions, uploads>>
vars == <<users, plans, services, announcements, work, subscriptions,
          uploads, now, dateNow, uploading, listing, req, resp, outbound,
          lists>>

----------------------------------------------------------------------------
(* Bounds of the model *)

\* Most rows the tables hold together counting the requests in flight,
\* and most files the uploads directory holds.
MaxRows == 2

\* The rows in the store.
RowCount ==
    Len(users) + Len(plans) + Len(services) + Len(announcements) + Len(work)
    + Len(subscriptions)

\* The rows in the store and the requests in flight.
Load == RowCount + BagCardinality(uploading) + BagCardinality(listing)

----------------------------------------------------------------------------
(* JavaScript values of request fields, and the tests the handlers apply *)

\* A field the request does not carry.
Undefined == [t |-> "undefined"]
\* A string and a number of a request body or query.
Str(v) == [t |-> "string", v |-> v]
Num(v) == [t |-> "number", v |-> v]
\* The array a repeated query parameter is parsed to, v its strings.
Arr(v) == [t |-> "array", v |-> v]

\* The TypeError of calling a method the value does not have.
TypeError == [t |-> "TypeError"]

\* SQL NULL / JavaScript null in a row or a response.
Null == [t |-> "null"]

\* !x of JavaScript: undefined, null, the empty string and 0 are falsy; an
\* array is truthy.
Falsy(x) ==
    \/ x.t = "undefined"
    \/ x.t = "null"
    \/ (x.t = "string" /\ x.v = "")
    \/ (x.t = "number" /\ x.v = 0)

Truthy(x) == ~Falsy(x)

\* x || d of JavaScript.
OrElse(x, d) == IF Truthy(x) THEN x ELSE d

\* The integer MySQL stores in an INT column for a truthy request value:
\* a number as it is, a numeric string (multipart fields are strings) parsed.
SqlInt(x) ==
    IF x.t = "number" THEN x.v
    ELSE IF x.v = "1" THEN 1
    ELSE IF x.v = "2" THEN 2
    ELSE 0

\* Before the first request.
NoRequest == [route |-> "none"]

\* res.status(status).json(body)
Response(status, body) == [status |-> status, body |-> body]

\* { message: m }
Message(m) == [message |-> m]

\* The routes that list a table newest first.
ListRoutes == {"GET /api/services", "GET /services", "GET /api/announcements",
               "GET /announcements", "GET /api/work"}

\* No list route called yet.
NotCalled == [t |-> "none"]

NoLists == [r \in ListRoutes |-> NotCalled]

----------------------------------------------------------------------------
(* Authentication *)

\* bcrypt.hash(password, 10): a salted one-way hash.  The digest is a
\* function of the salt and the password, kept with the salt.
BcryptHash(password, salt) == [salt |-> salt, digest |-> <<salt, password>>]

\* A comparison that hashes the candidate with a salt of its own.
BcryptCompareOwnSalt(password, hash) == BcryptHash(password, 1) = hash

\* bcrypt.compare(password, hash): hash the candidate with the stored salt.
BcryptCompare(password, hash) == BcryptHash(password, hash.salt) = hash

\* SELECT * FROM users WHERE email = ?
UsersByEmail(us, email) == SelectSeq(us, LAMBDA u : u.email = email)

\* The UNIQUE key on users.email: the INSERT raises ER_DUP_ENTRY.
EmailTaken(us, email) == Len(UsersByEmail(us, email)) > 0

\* A registration that looks for the duplicate before it validates.
RegisterResponseDuplicateFirst(us, r) ==
    IF Truthy(r.email) /\ r.storeUp /\ EmailTaken(us, r.email.v)
    THEN Response(400, Message("Email already registered"))
    ELSE IF Falsy(r.name) \/ Falsy(r.email) \/ Falsy(r.password)
            \/ Falsy(r.accountType)
    THEN Response(400, Message("All fields are required"))
    ELSE IF ~r.storeUp
    THEN Response(500, Message("Error registering user"))
    ELSE Response(201, [success |-> TRUE, message |-> "Registration successful"])

\* The response of POST /register for request r on users table us.
RegisterResponse(us, r) ==
    IF Falsy(r.name) \/ Falsy(r.email) \/ Falsy(r.password)
       \/ Falsy(r.accountType)
    THEN Response(400, Message("All fields are required"))
    ELSE IF ~r.storeUp
    THEN Response(500, Message("Error registering user"))
    ELSE IF EmailTaken(us, r.email.v)
    THEN Response(400, Message("Email already registered"))
    ELSE Response(201, [success |-> TRUE, message |-> "Registration successful"])

\* The users table after POST /register.
RegisterUsers(us, r) ==
    IF RegisterResponse(us, r).status = 201
    THEN Append(us, [id |-> Len(us) + 1,
                     name |-> r.name.v,
                     email |-> r.email.v,
                     password |-> BcryptHash(r.password.v, r.salt),
                     account_type |-> r.accountType.v])
    ELSE us

\* The dashboard of the account type, with the name and the id of the user
\* as its query: ?name=<name>&id=<id>.  The names of the model are letters,
\* which encodeURIComponent leaves as they are.
RedirectUrl(user) ==
    [path |-> IF user.account_type = "admin" THEN "/admin-dashboard"
              ELSE "/user-dashboard",
     query |-> <<"name", user.name, "id", user.id>>]

\* A login that tells an unknown email from a wrong password.
LoginResponseUnknownUser(us, r) ==
    IF Falsy(r.email) \/ Falsy(r.password)
    THEN Response(400, Message("Email and password required"))
    ELSE IF ~r.storeUp
    THEN Response(500, Message("Error logging in"))
    ELSE IF Len(UsersByEmail(us, r.email.v)) = 0
    THEN Response(404, [success |-> FALSE, message |-> "User not found"])
    ELSE IF ~BcryptCompare(r.password.v, UsersByEmail(us, r.email.v)[1].password)
    THEN Response(401, [success |-> FALSE, message |-> "Invalid credentials"])
    ELSE Response(200, [success |-> TRUE, message |-> "Login successful"])

\* The response of POST /login for request r on users table us.
LoginResponse(us, r) ==
    IF Falsy(r.email) \/ Falsy(r.password)
    THEN Response(400, Message("Email and password required"))
    ELSE IF ~r.storeUp
    THEN Response(500, Message("Error logging in"))
    ELSE IF Len(UsersByEmail(us, r.email.v)) = 0
    THEN Response(401, [success |-> FALSE, message |-> "Invalid credentials"])
    ELSE LET user == UsersByEmail(us, r.email.v)[1] IN
         IF ~BcryptCompare(r.password.v, user.password)
         THEN Response(401, [success |-> FALSE, message |-> "Invalid credentials"])
         ELSE Response(200,
                [success |-> TRUE,
                 message |-> "Login successful",
                 redirectUrl |-> RedirectUrl(user),
                 user |-> [id |-> user.id, name |-> user.name,
                           email |-> user.email,
                           accountType |-> user.account_type,
                           verified |-> 0,
                           subscription_expires_at |-> Null]])

NameValues == {Str(""), Str("Ann")}
EmailValues == {Str("a@x.io"), Str("b@x.io")}
PasswordValues == {Str(""), Str("pw1"), Str("pw2")}
AccountTypeValues == {Undefined, Str("admin"), Str("user")}
Salts == {1, 2}

RegisterRequests ==
    {[route |-> "POST /register", name |-> n, email |-> e, password |-> p,
      accountType |-> a, salt |-> s, storeUp |-> up] :
        n \in NameValues, e \in EmailValues, p \in PasswordValues,
        a \in AccountTypeValues, s \in Salts, up \in BOOLEAN}

LoginRequests ==
    {[route |-> "POST /login", email |-> e, password |-> p, storeUp |-> up] :
        e \in EmailValues \cup {Undefined}, p \in PasswordValues,
        up \in BOOLEAN}

\* app.post('/register')
Register ==
    \E r \in RegisterRequests :
        /\ users' = RegisterUsers(users, r)
        /\ users' # users => Load < MaxRows
        /\ req' = r
        /\ resp' = RegisterResponse(users, r)
        /\ outbound' = 0
        /\ lists' = IF users' # users THEN NoLists ELSE lists
        /\ UNCHANGED <<plans, services, announcements, work, subscriptions,
                       uploads, now,
                       dateNow, uploading, listing>>

\* app.post('/login')
Login ==
    \E r \in LoginRequests :
        /\ req' = r
        /\ resp' = LoginResponse(users, r)
        /\ outbound' = 0
        /\ UNCHANGED <<users, plans, services, announcements, work,
                       subscriptions, uploads, now, lists,
                       dateNow, uploading, listing>>

----------------------------------------------------------------------------
(* Ordered reads *)

\* Whether a sequence of rows is newest first.
NewestFirst(rows) ==
    \A i, j \in 1..Len(rows) : i < j => rows[i].created_at >= rows[j].created_at

\* SELECT ... ORDER BY created_at DESC: the rows newest first.  The statement
\* names no second sort key, so rows with equal created_at come back in an
\* order the server is free to choose, on every execution.
OrderByCreatedAtDesc(rows) ==
    IF Len(rows) = 0 THEN {<<>>}
    ELSE LET n == Len(rows)
             sorted == {[i \in 1..n |-> rows[p[i]]] : p \in Permutations(1..n)}
         IN {s \in sorted : NewestFirst(s)}

\* LEFT JOIN users u ON x.admin_id = u.id, u.name AS admin_name.
AdminName(us, adminId) ==
    IF \E i \in 1..Len(us) : us[i].id = adminId
    THEN Str(us[CHOOSE i \in 1..Len(us) : us[i].id = adminId].name)
    ELSE Null

\* created_at DEFAULT CURRENT_TIMESTAMP: the second an INSERT is stamped
\* with is that of the latest INSERT, or a later one.
WriteTimes == {now, now + 1}

----------------------------------------------------------------------------
(* Currency rate lookup and plans *)

BASE_CURRENCY == "USD"

\* The model writes a rate as a whole number of RateScale-ths (a decimal
\* of five places) and a price as a whole number of cents (the two decimals
\* of the price_usd column); the doubles the code computes with are derived
\* from them below.
RateScale == 1000 * 100

\* String.prototype.toUpperCase on the currency codes of the model.
ToUpperCase(c) ==
    CASE c = "usd" -> "USD"
      [] c = "Usd" -> "USD"
      [] c = "eur" -> "EUR"
      [] OTHER -> c

\* A lookup without the shortcut for the base currency.
getRateAlwaysRemote(toCurrency, up, answer) ==
    IF up
    THEN [rate |-> IF Truthy(answer) THEN answer.v ELSE RateScale, calls |-> 1]
    ELSE [rate |-> RateScale, calls |-> 1]

\* A lookup that answers 0 when the rate service fails.
getRateFailClosed(toCurrency, up, answer) ==
    IF Falsy(toCurrency) \/ ToUpperCase(toCurrency.v) = BASE_CURRENCY
    THEN [rate |-> RateScale, calls |-> 0]
    ELSE IF up
    THEN [rate |-> IF Truthy(answer) THEN answer.v ELSE RateScale, calls |-> 1]
    ELSE [rate |-> 0, calls |-> 1]

\* getRate(toCurrency): the rate, and the calls made to the rate service.
\* up: whether axios.get resolves; answer: data.rates[CODE] of its reply.
getRate(toCurrency, up, answer) ==
    IF Falsy(toCurrency) \/ ToUpperCase(toCurrency.v) = BASE_CURRENCY
    THEN [rate |-> RateScale, calls |-> 0]
    ELSE IF up
    THEN [rate |-> IF Truthy(answer) THEN answer.v ELSE RateScale, calls |-> 1]
    ELSE [rate |-> RateScale, calls |-> 1]

\* The arithmetic of Number((Number(p.price_usd) * rate).toFixed(2)) is that
\* of IEEE 754 doubles: the price and the rate are the doubles nearest to
\* their decimals, their product is rounded to a double, and toFixed(2)
\* rounds the exact value of that double.  100.00 at 0.92175 is listed at
\* 92.17, the double product lying below 92.175.
\* Numbers wider than an integer of the checker are sequences of digits in
\* base Base, lowest digit first, without high zero digits; 0 is <<>>.
Base == 2 ^ 13

\* The digits of natural n.
RECURSIVE Digits(_)
Digits(n) == IF n = 0 THEN <<>> ELSE <<n % Base>> \o Digits(n \div Base)

\* x without high zero digits.
RECURSIVE Normal(_)
Normal(x) ==
    IF x # <<>> /\ x[Len(x)] = 0 THEN Normal(SubSeq(x, 1, Len(x) - 1)) ELSE x

\* x * d + carry, for a digit-sized d.
RECURSIVE TimesDigit(_, _, _)
TimesDigit(x, d, carry) ==
    IF x = <<>> THEN Digits(carry)
    ELSE <<(Head(x) * d + carry) % Base>>
         \o TimesDigit(Tail(x), d, (Head(x) * d + carry) \div Base)

\* x + y + carry.
RECURSIVE Plus(_, _, _)
Plus(x, y, carry) ==
    IF x = <<>> /\ y = <<>> THEN Digits(carry)
    ELSE LET a == IF x = <<>> THEN 0 ELSE Head(x)
             b == IF y = <<>> THEN 0 ELSE Head(y)
         IN <<(a + b + carry) % Base>>
            \o Plus(IF x = <<>> THEN <<>> ELSE Tail(x),
                    IF y = <<>> THEN <<>> ELSE Tail(y),
                    (a + b + carry) \div Base)

\* x * y.
RECURSIVE Product(_, _)
Product(x, y) ==
    IF x = <<>> \/ y = <<>> THEN <<>>
    ELSE Normal(Plus(TimesDigit(y, Head(x), 0),
                     <<0>> \o Product(Tail(x), y), 0))

\* The quotient q and the remainder r of x by d, d below 2 ^ 18.
RECURSIVE DivRem(_, _)
DivRem(x, d) ==
    IF x = <<>> THEN [q |-> <<>>, r |-> 0]
    ELSE LET high == DivRem(Tail(x), d)
             v == high.r * Base + Head(x)
         IN [q |-> Normal(<<v \div d>> \o high.q), r |-> v % d]

\* The number of bits of natural n, and of digits x.
RECURSIVE BitsOf(_)
BitsOf(n) == IF n = 0 THEN 0 ELSE 1 + BitsOf(n \div 2)
BitLength(x) ==
    IF x = <<>> THEN 0 ELSE 13 * (Len(x) - 1) + BitsOf(x[Len(x)])

\* x * 2^k and the whole part of x / 2^k, for k >= 0.
ShiftLeft(x, k) ==
    IF x = <<>> THEN <<>>
    ELSE [i \in 1..(k \div 13) |-> 0] \o Normal(TimesDigit(x, 2 ^ (k % 13), 0))
ShiftRight(x, k) ==
    IF k \div 13 >= Len(x) THEN <<>>
    ELSE DivRem(SubSeq(x, (k \div 13) + 1, Len(x)), 2 ^ (k % 13)).q

IsOdd(x) == x # <<>> /\ Head(x) % 2 = 1

\* A double is [s, m, e]: the sign s (1 or -1), the significand m (digits,
\* of 53 bits unless the double is 0) and the exponent e, of value
\* s * m * 2^e.  -0 is not told from 0 (they are equal in JavaScript).  As
\* in the format, an exponent above the greatest marks what is not finite.
Zero == [s |-> 1, m |-> <<>>, e |-> 0]
Infinity(s) == [s |-> s, m |-> <<>>, e |-> 1024]
NaN == [s |-> 1, m |-> <<>>, e |-> 1025]

IsFinite(x) == x.e < 1024

\* -x
Negated(x) == IF x = Zero \/ x = NaN THEN x ELSE [x EXCEPT !.s = 0 - x.s]

\* The double of sign s and significand q, of 53 bits, rounded up or not;
\* past the greatest double it is an infinity.
Rounded(s, q, up, e) ==
    LET m == IF up THEN Normal(Plus(q, <<>>, 1)) ELSE q
        wide == BitLength(m) = 54
        exp == IF wide THEN e + 1 ELSE e
    IN IF exp + 53 > 1024 THEN Infinity(s)
       ELSE [s |-> s, m |-> IF wide THEN ShiftRight(m, 1) ELSE m, e |-> exp]

\* The whole part q of n * 2^k / d, for any integer k, and how the rest
\* compares with one half: below (-1), equal (0) or above (1).
Scaled(n, d, k) ==
    IF k >= 0
    THEN LET qr == DivRem(ShiftLeft(n, k), d)
         IN [q |-> qr.q,
             half |-> IF 2 * qr.r > d THEN 1
                      ELSE IF 2 * qr.r = d THEN 0 ELSE -1]
    ELSE LET n1 == ShiftRight(n, (0 - k) - 1)
             exact == ShiftLeft(n1, (0 - k) - 1) = n
             qr == DivRem(n1, 2 * d)
         IN [q |-> qr.q,
             half |-> IF qr.r > d \/ (qr.r = d /\ ~exact) THEN 1
                      ELSE IF qr.r = d THEN 0 ELSE -1]

\* The double nearest to the fraction n / d (ties to the even significand):
\* what Number() gives for a decimal string and JSON.parse for a decimal
\* literal.  n is a sequence of digits, d a natural from 1 to RateScale.
NearestDouble(n, d) ==
    IF n = <<>> THEN Zero
    ELSE LET k1 == 53 + BitsOf(d) - BitLength(n)
             k == IF BitLength(Scaled(n, d, k1).q) = 54 THEN k1 - 1 ELSE k1
             sc == Scaled(n, d, k)
         IN Rounded(1, sc.q,
                    sc.half = 1 \/ (sc.half = 0 /\ IsOdd(sc.q)),
                    0 - k)

\* The double of the decimal k / d, k an integer of the checker.
NumberOf(k, d) ==
    IF k < 0 THEN Negated(NearestDouble(Digits(0 - k), d))
    ELSE NearestDouble(Digits(k), d)

\* a * b of two doubles: the exact product rounded to the nearest double.
\* (No product of a price and a rate of NearestDouble is as small as the
\* doubles that have fewer than 53 bits.)
Times(a, b) ==
    IF a = NaN \/ b = NaN THEN NaN
    ELSE IF ~IsFinite(a) \/ ~IsFinite(b)
    THEN IF a = Zero \/ b = Zero THEN NaN ELSE Infinity(a.s * b.s)
    ELSE IF a = Zero \/ b = Zero THEN Zero
    ELSE LET p == Product(a.m, b.m)
             sh == BitLength(p) - 53
             q2 == ShiftRight(p, sh - 1)
             q == ShiftRight(q2, 1)
             exact == ShiftLeft(q2, sh - 1) = p
         IN Rounded(a.s * b.s, q, IsOdd(q2) /\ (~exact \/ IsOdd(q)),
                    a.e + b.e + sh)

\* The digits of x.toFixed(2) of a finite double x, as a number of cents:
\* the integer n for which n / 100 is nearest to the exact magnitude of x,
\* the larger n of two equally near.
ToFixedCents(x) ==
    IF x.m = <<>> THEN <<>>
    ELSE IF x.e >= 0 THEN ShiftLeft(Normal(TimesDigit(x.m, 100, 0)), x.e)
    ELSE ShiftRight(Plus(Normal(TimesDigit(x.m, 200, 0)),
                         ShiftLeft(<<1>>, 0 - x.e), 0),
                    1 - x.e)

\* Number(x.toFixed(2)): the double of the string toFixed gives, which is
\* 'Infinity', '-Infinity' or 'NaN' for x not finite and has the sign of x
\* otherwise.  (From 1e21 on toFixed gives the digits of x itself, and so
\* does ToFixedCents, x being whole.)
NumberOfToFixed(x) ==
    IF ~IsFinite(x) THEN x
    ELSE IF x.s < 0 THEN Negated(NearestDouble(ToFixedCents(x), 100))
    ELSE NearestDouble(ToFixedCents(x), 100)

\* Number((price * rate).toFixed(2)) of two doubles.
LocalPrice(price, rate) == NumberOfToFixed(Times(price, rate))

\* Number((Number(p.price_usd) * rate).toFixed(2)) of a price in cents and
\* a rate in RateScale-ths.
ToFixed2(cents, rate) ==
    LocalPrice(NumberOf(cents, 100), NumberOf(rate, RateScale))

\* The validation of POST /api/plans.
PlanFieldsMissing(r) ==
    Falsy(r.adminId) \/ Falsy(r.name) \/ Falsy(r.price) \/ Falsy(r.duration)

\* The response of POST /api/plans for request r on plans table ps.
CreatePlanResponse(ps, r) ==
    IF PlanFieldsMissing(r)
    THEN Response(400, Message("adminId, name, price and duration are required"))
    ELSE IF ~r.storeUp
    THEN Response(500, Message("Error creating plan"))
    ELSE Response(200, [success |-> TRUE, message |-> "Plan created",
                        planId |-> Len(ps) + 1])

\* The plans table after POST /api/plans handled at time t.
CreatePlanRows(ps, r, t) ==
    IF CreatePlanResponse(ps, r).status = 200
    THEN Append(ps, [id |-> Len(ps) + 1,
                     admin_id |-> SqlInt(r.adminId),
                     name |-> r.name.v,
                     description |-> OrElse(r.description, Str("")).v,
                     price_usd |-> r.price.v,
                     duration_days |-> r.duration.v,
                     active |-> 1,
                     created_at |-> t])
    ELSE ps

\* WHERE p.active = 1
ActivePlans(ps) == SelectSeq(ps, LAMBDA p : p.active = 1)

AdminIdValues == {Undefined, Num(1)}
\* adminId, name, description, price and duration of a plan creation: all
\* present (at 100.00), the description omitted (at 19.99), a required one
\* absent, or a price or a duration of 0.
PlanFieldValues ==
    {<<Num(1), Str("Gold"), Str("monthly"), Num(10000), Num(30)>>,
     <<Num(1), Str("Gold"), Undefined, Num(1999), Num(30)>>,
     <<Undefined, Str("Gold"), Str("monthly"), Num(10000), Num(30)>>,
     <<Num(1), Undefined, Str("monthly"), Num(10000), Num(30)>>,
     <<Num(1), Str("Gold"), Str("monthly"), Undefined, Num(30)>>,
     <<Num(1), Str("Gold"), Undefined, Num(10000), Undefined>>,
     <<Num(1), Str("Gold"), Str("monthly"), Num(0), Num(30)>>,
     <<Num(1), Str("Gold"), Undefined, Num(10000), Num(0)>>}
\* The currency queries: absent, ?currency= (the empty string), a code, and
\* ?currency=EUR&currency=usd (an array).
CurrencyValues ==
    {Undefined, Str(""), Str("USD"), Str("usd"), Str("EUR"),
     Arr(<<"EUR", "usd">>)}
RemoteRateValues == {Undefined, Num(92175)}

\* The prices a created plan may carry and the rates getRate may return,
\* and Number() and ToFixed2 of each such price at each such rate, computed
\* once.
ListedPrices == {f[4].v : f \in {g \in PlanFieldValues : g[4] # Undefined}}
ListedRates ==
    {RateScale} \cup {rr.v : rr \in RemoteRateValues \ {Undefined}}
ListedLocal ==
    {<<c, r, ToFixed2(c, r)>> : c \in ListedPrices, r \in ListedRates}

ListedUsd == {<<c, NumberOf(c, 100)>> : c \in ListedPrices}

\* Number(p.price_usd) of a price in cents, looked up where it was computed
\* already.
PriceUsd(cents) ==
    IF \E x \in ListedUsd : x[1] = cents
    THEN (CHOOSE x \in ListedUsd : x[1] = cents)[2]
    ELSE NumberOf(cents, 100)

\* ToFixed2(cents, rate), looked up where it was computed already.
PriceLocal(cents, rate) ==
    IF \E x \in ListedLocal : x[1] = cents /\ x[2] = rate
    THEN (CHOOSE x \in ListedLocal : x[1] = cents /\ x[2] = rate)[3]
    ELSE ToFixed2(cents, rate)

\* SELECT p.*, u.name AS admin_name ... LEFT JOIN users u: one row of the
\* query, from row p of plans.
PlanRow(p, us) ==
    [id |-> p.id,
     admin_id |-> p.admin_id,
     admin_name |-> AdminName(us, p.admin_id),
     name |-> p.name,
     description |-> p.description,
     price_usd |-> p.price_usd,
     duration_days |-> p.duration_days,
     active |-> p.active,
     created_at |-> p.created_at]

\* The results the query of GET /api/plans may have on tables ps and us.
SelectPlans(ps, us) ==
    {[i \in 1..Len(rows) |-> PlanRow(rows[i], us)] :
        rows \in OrderByCreatedAtDesc(ActivePlans(ps))}

\* One plan of the listing, from a row p of the query.
MappedPlan(p, currency, rate) ==
    [id |-> p.id,
     admin_id |-> p.admin_id,
     admin_name |-> p.admin_name,
     name |-> p.name,
     description |-> p.description,
     price_usd |-> PriceUsd(p.price_usd),
     duration_days |-> p.duration_days,
     currency |-> currency,
     price_local |-> PriceLocal(p.price_usd, rate),
     created_at |-> p.created_at]

\* The currency of a listing:
\* (req.query.currency || BASE_CURRENCY).toUpperCase()
\* a string in upper case, or the TypeError thrown for a truthy value that
\* is not a string and so has no toUpperCase.
ListingCurrency(r) ==
    LET c == OrElse(r.currency, Str(BASE_CURRENCY))
    IN IF c.t = "string" THEN Str(ToUpperCase(c.v)) ELSE TypeError

\* The handler of GET /api/plans reaches its catch: the currency threw, or
\* the query failed.
ListPlansThrows(r) == ListingCurrency(r) = TypeError \/ ~r.storeUp

\* The calls GET /api/plans makes to the rate service once its query has
\* answered.
ListPlansCalls(r) ==
    IF ListPlansThrows(r) THEN 0
    ELSE getRate(ListingCurrency(r), r.remoteUp, r.remoteRate).calls

\* The response of GET /api/plans from its catch.
ListPlansFailure == Response(500, Message("Error fetching plans"))

\* The response of GET /api/plans for request r: that of its catch, or the
\* listing of the rows its query returned.
ListPlansResponse(rows, r) ==
    IF ListPlansThrows(r) THEN ListPlansFailure
    ELSE LET currency == ListingCurrency(r).v
             rate == getRate(Str(currency), r.remoteUp, r.remoteRate).rate
         IN Response(200,
                [plans |-> [i \in 1..Len(rows) |->
                              MappedPlan(rows[i], currency, rate)],
                 base |-> BASE_CURRENCY,
                 currency |-> currency,
                 rate |-> rate])

\* The requests in flight with one more, x, and with one x fewer.
With(bag, x) == bag (+) SetToBag({x})
Without(bag, x) == bag (-) SetToBag({x})

CreatePlanRequests ==
    {[route |-> "POST /api/plans", adminId |-> f[1], name |-> f[2],
      description |-> f[3], price |-> f[4], duration |-> f[5],
      storeUp |-> up] :
        f \in PlanFieldValues, up \in BOOLEAN}

\* The listings, with whether the rate service answers and, when it does,
\* the rate of its reply.
ListPlansRequests ==
    {r \in {[route |-> "GET /api/plans", currency |-> c, storeUp |-> up,
             remoteUp |-> rup, remoteRate |-> rr] :
               c \in CurrencyValues, up \in BOOLEAN, rup \in BOOLEAN,
               rr \in RemoteRateValues} :
        r.remoteUp \/ r.remoteRate = Undefined}

\* app.post('/api/plans')
CreatePlan ==
    \E r \in CreatePlanRequests, t \in WriteTimes :
        /\ plans' = CreatePlanRows(plans, r, t)
        /\ plans' # plans => Load < MaxRows
        /\ plans' = plans => t = now
        /\ now' = t
        /\ req' = r
        /\ resp' = CreatePlanResponse(plans, r)
        /\ outbound' = 0
        /\ lists' = IF plans' # plans THEN NoLists ELSE lists
        /\ UNCHANGED <<users, services, announcements, work, subscriptions,
                       uploads,
                       dateNow, uploading, listing>>

\* app.get('/api/plans'), from the request to the answer when the handler
\* awaits nothing after its query (the currency threw before the query, the
\* query failed, or getRate returns without a call), and to the call of the
\* rate service otherwise.
ListPlans ==
    \E r \in ListPlansRequests, rows \in SelectPlans(plans, users) :
        /\ IF ListPlansThrows(r)
           THEN /\ req' = r
                /\ resp' = ListPlansFailure
                /\ outbound' = 0
                /\ UNCHANGED listing
           ELSE IF ListPlansCalls(r) = 0
           THEN /\ req' = r
                /\ resp' = ListPlansResponse(rows, r)
                /\ outbound' = 0
                /\ UNCHANGED listing
           ELSE /\ Load < MaxRows
                /\ listing' = With(listing, [r |-> r, rows |-> rows])
                /\ UNCHANGED <<req, resp, outbound>>
        /\ UNCHANGED <<users, plans, services, announcements, work,
                       subscriptions, uploads, now, dateNow, uploading,
                       lists>>

\* app.get('/api/plans'), from the settling of the rate service's call to
\* the answer: the rows are those the query returned.
ListPlansAnswer ==
    \E l \in BagToSet(listing) :
        /\ req' = l.r
        /\ resp' = ListPlansResponse(l.rows, l.r)
        /\ outbound' = ListPlansCalls(l.r)
        /\ listing' = Without(listing, l)
        /\ UNCHANGED <<users, plans, services, announcements, work,
                       subscriptions, uploads, now, dateNow, uploading,
                       lists>>

----------------------------------------------------------------------------
(* Subscriptions *)

\* The response of POST /subscribe for request r.
SubscribeResponse(r) ==
    IF Falsy(r.userId) \/ (Falsy(r.serviceId) /\ Falsy(r.planId))
    THEN Response(400, Message("userId and serviceId or planId required"))
    ELSE IF ~r.storeUp
    THEN Response(500, Message("Error subscribing"))
    ELSE IF Truthy(r.serviceId)
    THEN Response(200, [success |-> TRUE, message |-> "Subscribed to service"])
    ELSE IF Truthy(r.planId)
    THEN Response(200, [success |-> TRUE, message |-> "Subscribed to plan"])
    ELSE Response(400, Message("Invalid subscription request"))

\* A subscription that records both references when both are given.
SubscribeRowsBoth(subs, r) ==
    IF SubscribeResponse(r).status # 200 THEN subs
    ELSE Append(subs, [id |-> Len(subs) + 1,
                       user_id |-> Num(SqlInt(r.userId)),
                       service_id |-> IF Truthy(r.serviceId)
                                      THEN Num(SqlInt(r.serviceId)) ELSE Null,
                       plan_id |-> IF Truthy(r.planId)
                                   THEN Num(SqlInt(r.planId)) ELSE Null])

\* The subscriptions table after POST /subscribe: a column the INSERT does
\* not name is NULL.
SubscribeRows(subs, r) ==
    IF SubscribeResponse(r).status # 200 THEN subs
    ELSE IF Truthy(r.serviceId)
    THEN Append(subs, [id |-> Len(subs) + 1,
                       user_id |-> Num(SqlInt(r.userId)),
                       service_id |-> Num(SqlInt(r.serviceId)),
                       plan_id |-> Null])
    ELSE Append(subs, [id |-> Len(subs) + 1,
                       user_id |-> Num(SqlInt(r.userId)),
                       service_id |-> Null,
                       plan_id |-> Num(SqlInt(r.planId))])

UserIdValues == {Undefined, Num(0), Num(5)}
ServiceIdValues == {Undefined, Num(0), Num(2)}
PlanIdValues == {Undefined, Num(0), Num(9)}

SubscribeRequests ==
    {[route |-> "POST /subscribe", userId |-> u, serviceId |-> sv,
      planId |-> pl, storeUp |-> up] :
        u \in UserIdValues, sv \in ServiceIdValues, pl \in PlanIdValues,
        up \in BOOLEAN}

\* app.post('/subscribe')
Subscribe ==
    \E r \in SubscribeRequests :
        /\ subscriptions' = SubscribeRows(subscriptions, r)
        /\ subscriptions' # subscriptions => Load < MaxRows
        /\ req' = r
        /\ resp' = SubscribeResponse(r)
        /\ outbound' = 0
        /\ lists' = IF subscriptions' # subscriptions THEN NoLists ELSE lists
        /\ UNCHANGED <<users, plans, services, announcements, work, uploads,
                       now,
                       dateNow, uploading, listing>>

----------------------------------------------------------------------------
(* Services *)

\* The response of POST /api/services for request r.
CreateServiceResponse(r) ==
    IF Falsy(r.service) \/ Falsy(r.level) \/ Falsy(r.adminId)
    THEN Response(400, Message("All fields required"))
    ELSE IF ~r.storeUp
    THEN Response(500, Message("Error creating service"))
    ELSE Response(200, [success |-> TRUE, message |-> "Service created"])

\* The services table after POST /api/services handled at time t.
CreateServiceRows(svs, r, t) ==
    IF CreateServiceResponse(r).status = 200
    THEN Append(svs, [id |-> Len(svs) + 1,
                      service |-> r.service.v,
                      level |-> r.level.v,
                      admin_id |-> SqlInt(r.adminId),
                      created_at |-> t])
    ELSE svs

\* A row of GET /api/services.
ServiceRow(s, us) ==
    [id |-> s.id, service |-> s.service, level |-> s.level,
     admin_id |-> s.admin_id, admin_name |-> AdminName(us, s.admin_id),
     created_at |-> s.created_at]

\* A row of GET /services.
LegacyServiceRow(s) ==
    [id |-> s.id, service |-> s.service, level |-> s.level,
     admin_id |-> s.admin_id]

\* The response of a list route: the rows under key, or a 500.
ListResponse(rows, up, key, failure) ==
    IF ~up THEN Response(500, Message(failure))
    ELSE Response(200, [list |-> key, rows |-> rows])

\* What the list routes returned first since the last write, after route
\* has sent response.
Returned(route, response) ==
    IF response.status = 200 /\ lists[route] = NotCalled
    THEN [lists EXCEPT ![route] = [t |-> "rows", rows |-> response.body.rows]]
    ELSE lists

ServiceValues == {Undefined, Str("tutoring")}
LevelValues == {Str(""), Str("basic")}

CreateServiceRequests ==
    {[route |-> "POST /api/services", service |-> sv, level |-> l,
      adminId |-> a, storeUp |-> up] :
        sv \in ServiceValues, l \in LevelValues, a \in AdminIdValues,
        up \in BOOLEAN}

\* app.post('/api/services')
CreateService ==
    \E r \in CreateServiceRequests, t \in WriteTimes :
        /\ services' = CreateServiceRows(services, r, t)
        /\ services' # services => Load < MaxRows
        /\ services' = services => t = now
        /\ now' = t
        /\ req' = r
        /\ resp' = CreateServiceResponse(r)
        /\ outbound' = 0
        /\ lists' = IF services' # services THEN NoLists ELSE lists
        /\ UNCHANGED <<users, plans, announcements, work, subscriptions,
                       uploads,
                       dateNow, uploading, listing>>

\* app.get('/api/services')
ListServices ==
    \E up \in BOOLEAN, rows \in OrderByCreatedAtDesc(services) :
        /\ req' = [route |-> "GET /api/services", storeUp |-> up]
        /\ resp' = ListResponse([i \in 1..Len(rows) |->
                                    ServiceRow(rows[i], users)],
                                up, "services", "Error fetching services")
        /\ lists' = Returned("GET /api/services", resp')
        /\ outbound' = 0
        /\ UNCHANGED <<users, plans, services, announcements, work,
                       subscriptions, uploads, now,
                       dateNow, uploading, listing>>

\* app.get('/services')
LegacyListServices ==
    \E up \in BOOLEAN, rows \in OrderByCreatedAtDesc(services) :
        /\ req' = [route |-> "GET /services", storeUp |-> up]
        /\ resp' = ListResponse([i \in 1..Len(rows) |->
                                    LegacyServiceRow(rows[i])],
                                up, "", "Error")
        /\ lists' = Returned("GET /services", resp')
        /\ outbound' = 0
        /\ UNCHANGED <<users, plans, services, announcements, work,
                       subscriptions, uploads, now,
                       dateNow, uploading, listing>>

----------------------------------------------------------------------------
(* Announcements *)

\* The response of POST /api/announcements for request r.
CreateAnnouncementResponse(r) ==
    IF Falsy(r.content) \/ Falsy(r.adminId)
    THEN Response(400, Message("content and adminId required"))
    ELSE IF ~r.storeUp
    THEN Response(500, Message("Error creating announcement"))
    ELSE Response(200, [success |-> TRUE, message |-> "Announcement created"])

\* The announcements table after POST /api/announcements handled at time t.
CreateAnnouncementRows(as, r, t) ==
    IF CreateAnnouncementResponse(r).status = 200
    THEN Append(as, [id |-> Len(as) + 1,
                     title |-> OrElse(r.title, Str("")).v,
                     content |-> r.content.v,
                     admin_id |-> SqlInt(r.adminId),
                     created_at |-> t])
    ELSE as

\* A row of GET /api/announcements.
AnnouncementRow(a, us) ==
    [id |-> a.id, title |-> a.title, content |-> a.content,
     created_at |-> a.created_at, admin_name |-> AdminName(us, a.admin_id)]

\* A row of GET /announcements.
LegacyAnnouncementRow(a) ==
    [id |-> a.id, title |-> a.title, content |-> a.content,
     created_at |-> a.created_at]

TitleValues == {Undefined, Str("News")}
ContentValues == {Str(""), Str("hello")}

CreateAnnouncementRequests ==
    {[route |-> "POST /api/announcements", title |-> ti, content |-> c,
      adminId |-> a, storeUp |-> up] :
        ti \in TitleValues, c \in ContentValues, a \in AdminIdValues,
        up \in BOOLEAN}

\* app.post('/api/announcements')
CreateAnnouncement ==
    \E r \in CreateAnnouncementRequests, t \in WriteTimes :
        /\ announcements' = CreateAnnouncementRows(announcements, r, t)
        /\ announcements' # announcements => Load < MaxRows
        /\ announcements' = announcements => t = now
        /\ now' = t
        /\ req' = r
        /\ resp' = CreateAnnouncementResponse(r)
        /\ outbound' = 0
        /\ lists' = IF announcements' # announcements THEN NoLists ELSE lists
        /\ UNCHANGED <<users, plans, services, work, subscriptions, uploads,
                       dateNow, uploading, listing>>

\* app.get('/api/announcements')
ListAnnouncements ==
    \E up \in BOOLEAN, rows \in OrderByCreatedAtDesc(announcements) :
        /\ req' = [route |-> "GET /api/announcements", storeUp |-> up]
        /\ resp' = ListResponse([i \in 1..Len(rows) |->
                                    AnnouncementRow(rows[i], users)],
                                up, "announcements",
                                "Error fetching announcements")
        /\ lists' = Returned("GET /api/announcements", resp')
        /\ outbound' = 0
        /\ UNCHANGED <<users, plans, services, announcements, work,
                       subscriptions, uploads, now,
                       dateNow, uploading, listing>>

\* app.get('/announcements')
LegacyListAnnouncements ==
    \E up \in BOOLEAN, rows \in OrderByCreatedAtDesc(announcements) :
        /\ req' = [route |-> "GET /announcements", storeUp |-> up]
        /\ resp' = ListResponse([i \in 1..Len(rows) |->
                                    LegacyAnnouncementRow(rows[i])],
                                up, "", "Error")
        /\ lists' = Returned("GET /announcements", resp')
        /\ outbound' = 0
        /\ UNCHANGED <<users, plans, services, announcements, work,
                       subscriptions, uploads, now,
                       dateNow, uploading, listing>>

----------------------------------------------------------------------------
(* Work uploads *)

\* A file part of a multipart request; its name is a sequence of characters.
File(originalname) == [t |-> "file", originalname |-> originalname]

HasFile(r) == r.file.t = "file"

\* \s of a regular expression, on the characters of the model.
IsWhitespace(c) == c \in {" ", "\t"}

\* The sequence s without its leading whitespace.
RECURSIVE SkipWhitespace(_)
SkipWhitespace(s) ==
    IF s # <<>> /\ IsWhitespace(Head(s)) THEN SkipWhitespace(Tail(s)) ELSE s

\* originalname.replace(/\s/g, '_'): every whitespace character becomes an
\* underscore.
ReplaceEachWhitespace(s) ==
    [i \in 1..Len(s) |-> IF IsWhitespace(s[i]) THEN "_" ELSE s[i]]

\* originalname.replace(/\s+/g, '_'): every maximal run of whitespace
\* becomes one underscore.
RECURSIVE ReplaceWhitespace(_)
ReplaceWhitespace(s) ==
    IF s = <<>> THEN <<>>
    ELSE IF IsWhitespace(Head(s))
    THEN <<"_">> \o ReplaceWhitespace(SkipWhitespace(s))
    ELSE <<Head(s)>> \o ReplaceWhitespace(Tail(s))

\* multer's filename callback, Date.now() reading t:
\* `${Date.now()}-${sanitized original name}`.
SafeName(t, originalname) ==
    <<ToString(t), "-">> \o ReplaceWhitespace(originalname)

\* The milliseconds a file may be named at: those of the file named last,
\* or later ones.
NameTimes == {dateNow, dateNow + 1}

\* The uploads directory after upload.single('file') named the file part of
\* r at Date.now() = t: multer stores the file part before the handler is
\* called.
StoredUploads(dir, r, t) ==
    IF HasFile(r) THEN dir \cup {SafeName(t, r.file.originalname)} ELSE dir

\* The request as upload.single('file') hands it to the handler:
\* req.file.filename is the name the file part was stored under.
Received(r, t) ==
    IF HasFile(r)
    THEN [r EXCEPT !.file = [t |-> "file",
                             originalname |-> r.file.originalname,
                             filename |-> SafeName(t, r.file.originalname)]]
    ELSE r

\* req.file ? req.file.filename : null
FilePath(r) == IF HasFile(r) THEN Str(r.file.filename) ELSE Null

\* The response of POST /api/work for request r.
UploadWorkResponse(r) ==
    IF Falsy(r.title) \/ Falsy(r.description) \/ Falsy(r.adminId)
    THEN Response(400, Message("title, description and adminId required"))
    ELSE IF ~r.storeUp
    THEN Response(500, Message("Error uploading work"))
    ELSE Response(200, [success |-> TRUE, message |-> "Work uploaded"])

\* The work table after the handler of POST /api/work ran for request r,
\* its INSERT stamped with second t.
UploadWorkRows(ws, r, t) ==
    IF UploadWorkResponse(r).status = 200
    THEN Append(ws, [id |-> Len(ws) + 1,
                     title |-> r.title.v,
                     description |-> r.description.v,
                     file_path |-> FilePath(r),
                     admin_id |-> SqlInt(r.adminId),
                     created_at |-> t])
    ELSE ws

\* A row of GET /api/work.
WorkRow(w, us) ==
    [id |-> w.id, title |-> w.title, description |-> w.description,
     file_path |-> w.file_path, created_at |-> w.created_at,
     admin_name |-> AdminName(us, w.admin_id)]

\* The text fields of an upload: all present, one absent, or one empty.
WorkFieldValues ==
    {<<Str("logo"), Str("draft"), Str("1")>>,
     <<Undefined, Str("draft"), Str("1")>>,
     <<Str("logo"), Str(""), Str("1")>>}
FileValues == {Undefined, File(<<"a", " ", "\t", "b", " ">>)}

\* The uploads as they arrive.
UploadWorkRequests ==
    {[route |-> "POST /api/work", title |-> f[1], description |-> f[2],
      adminId |-> f[3], file |-> fl] :
        f \in WorkFieldValues, fl \in FileValues}

\* Upload r as its handler runs, the store answering its INSERT or not.
Handled(r, up) ==
    [route |-> r.route, title |-> r.title, description |-> r.description,
     adminId |-> r.adminId, file |-> r.file, storeUp |-> up]

\* upload.single('file') of POST /api/work: multer reads the multipart
\* body, names the file part by the clock and stores it.  The handler runs
\* later.  created: whether the directory had no file of that name.
UploadWorkFile ==
    \E r \in UploadWorkRequests, t \in NameTimes :
        /\ Load < MaxRows
        /\ ~HasFile(r) => t = dateNow
        /\ uploads' = StoredUploads(uploads, r, t)
        /\ Cardinality(uploads') <= MaxRows
        /\ dateNow' = IF uploads' # uploads THEN t ELSE dateNow
        /\ uploading' = With(uploading, [r |-> Received(r, t),
                                         created |-> uploads' # uploads])
        /\ UNCHANGED <<users, plans, services, announcements, work,
                       subscriptions, now, listing, req, resp, outbound,
                       lists>>

\* The handler of app.post('/api/work'), for an upload multer is done with:
\* validation, the INSERT and the answer.
UploadWork ==
    \E u \in BagToSet(uploading), up \in BOOLEAN, t \in WriteTimes :
        /\ work' = UploadWorkRows(work, Handled(u.r, up), t)
        /\ work' = work => t = now
        /\ now' = t
        /\ uploading' = Without(uploading, u)
        /\ req' = Handled(u.r, up)
        /\ resp' = UploadWorkResponse(req')
        /\ outbound' = 0
        /\ lists' = IF work' # work THEN NoLists ELSE lists
        /\ UNCHANGED <<users, plans, services, announcements, subscriptions,
                       uploads, dateNow, listing>>

\* app.get('/api/work')
ListWork ==
    \E up \in BOOLEAN, rows \in OrderByCreatedAtDesc(work) :
        /\ req' = [route |-> "GET /api/work", storeUp |-> up]
        /\ resp' = ListResponse([i \in 1..Len(rows) |->
                                    WorkRow(rows[i], users)],
                                up, "work", "Error fetching work")
        /\ lists' = Returned("GET /api/work", resp')
        /\ outbound' = 0
        /\ UNCHANGED <<users, plans, services, announcements, work,
                       subscriptions, uploads, now,
                       dateNow, uploading, listing>>

----------------------------------------------------------------------------

Init ==
    /\ users = <<>>
    /\ plans = <<>>
    /\ services = <<>>
    /\ announcements = <<>>
    /\ work = <<>>
    /\ subscriptions = <<>>
    /\ uploads = {}
    /\ now = 0
    /\ dateNow = 0
    /\ uploading = EmptyBag
    /\ listing = EmptyBag
    /\ req = NoRequest
    /\ resp = Response(0, Message(""))
    /\ outbound = 0
    /\ lists = NoLists

NextAuth == Register \/ Login

SpecAuth == Init /\ [][NextAuth]_vars

----------------------------------------------------------------------------
(* Properties of registration and login, checked under SpecAuth *)

\* The fields of a registration are all present (none missing or empty).
RegistrationComplete(r) ==
    Truthy(r.name) /\ Truthy(r.email) /\ Truthy(r.password)
    /\ Truthy(r.accountType)

\* Some row of us carries the email.
EmailInTable(us, email) == \E i \in 1..Len(us) : us[i].email = email

\* The login request with the credentials of registration r.
LoginWith(r) ==
    [route |-> "POST /login", email |-> r.email, password |-> r.password,
     storeUp |-> TRUE]

LoginSucceeds(us, r) ==
    /\ LoginResponse(us, r).status = 200
    /\ LoginResponse(us, r).body.success

\* C1: a registration with all four fields present and an email not yet in
\* the users table, the store answering, is answered 201 and adds one user
\* row, after which a login with the same email and password succeeds; and
\* a login that succeeds keeps succeeding after every later request.
C1_RegisterThenLogin ==
    [][/\ ( /\ req'.route = "POST /register"
            /\ RegistrationComplete(req')
            /\ req'.storeUp
            /\ ~EmailInTable(users, req'.email.v) )
          => /\ resp'.status = 201
             /\ Len(users') = Len(users) + 1
             /\ SubSeq(users', 1, Len(users)) = users
             /\ users'[Len(users')].email = req'.email.v
             /\ LoginSucceeds(users', LoginWith(req'))
       /\ users' # users
          => \A r \in LoginRequests :
               r.storeUp /\ LoginSucceeds(users, r) => LoginSucceeds(users', r)
      ]_vars

\* The first registered user logs in after a second user was registered.
C1_Witness ==
    /\ req.route = "POST /login"
    /\ resp.status = 200
    /\ Len(users) = 2
    /\ resp.body.user.id = 1

\* C2 as stated: a registration whose email is already in the users table,
\* the store answering, is answered 400 'Email already registered' whatever
\* the other fields are, and adds no row.
C2_DuplicateWhateverTheFields ==
    [][( /\ req'.route = "POST /register"
         /\ req'.storeUp
         /\ Truthy(req'.email)
         /\ EmailInTable(users, req'.email.v) )
       => /\ resp' = Response(400, Message("Email already registered"))
          /\ users' = users
      ]_vars

\* C2 as amended: a registration whose email is already in the users table,
\* the store answering, adds no row; it is answered 400 'Email already
\* registered' when name, password and accountType are all present, whatever
\* their values, and 400 'All fields are required' when one is missing or
\* empty.
C2_DuplicateRejected ==
    [][( /\ req'.route = "POST /register"
         /\ req'.storeUp
         /\ Truthy(req'.email)
         /\ EmailInTable(users, req'.email.v) )
       => /\ users' = users
          /\ resp' = IF RegistrationComplete(req')
                     THEN Response(400, Message("Email already registered"))
                     ELSE Response(400, Message("All fields are required"))
      ]_vars

\* A complete registration reusing an email, under another name's password
\* and account type than the row's, was refused as a duplicate.
C2_Witness ==
    /\ req.route = "POST /register"
    /\ RegistrationComplete(req)
    /\ resp = Response(400, Message("Email already registered"))
    /\ \E i \in 1..Len(users) :
         /\ users[i].email = req.email.v
         /\ users[i].account_type # req.accountType.v
         /\ ~BcryptCompare(req.password.v, users[i].password)

\* No user has the email of login r.
NoSuchUser(us, r) == ~EmailInTable(us, r.email.v)

\* A user has the email of login r, and another password.
WrongPassword(us, r) ==
    \E i \in 1..Len(us) :
        /\ us[i].email = r.email.v
        /\ us[i].password.digest # <<us[i].password.salt, r.password.v>>

InvalidCredentials ==
    Response(401, [success |-> FALSE, message |-> "Invalid credentials"])

\* C3: of the logins with email and password present, the store answering,
\* one that fails for an unknown email and one that fails for a wrong
\* password get the same response, 401 {success: false, message: 'Invalid
\* credentials'}; the response sent last is that one when the login failed
\* either way.
C3_SameFailure ==
    /\ \A r1, r2 \in LoginRequests :
         ( /\ r1.storeUp /\ Truthy(r1.email) /\ Truthy(r1.password)
           /\ r2.storeUp /\ Truthy(r2.email) /\ Truthy(r2.password)
           /\ NoSuchUser(users, r1)
           /\ WrongPassword(users, r2) )
         => /\ LoginResponse(users, r1) = LoginResponse(users, r2)
            /\ LoginResponse(users, r1) = InvalidCredentials
    /\ ( /\ req.route = "POST /login"
         /\ req.storeUp /\ Truthy(req.email) /\ Truthy(req.password)
         /\ (NoSuchUser(users, req) \/ WrongPassword(users, req)) )
       => resp = InvalidCredentials

\* A login failed on a wrong password while another email is unknown.
C3_Witness ==
    /\ req.route = "POST /login"
    /\ resp.status = 401
    /\ Truthy(req.email)
    /\ EmailInTable(users, req.email.v)
    /\ \E e \in EmailValues : ~EmailInTable(users, e.v)

NextPlans == CreatePlan \/ ListPlans \/ ListPlansAnswer

SpecPlans == Init /\ [][NextPlans]_vars

----------------------------------------------------------------------------
(* Properties of plans and the rate lookup, checked under SpecPlans *)

\* A step that answers a request: it puts none in flight.
RequestAnswered ==
    /\ BagCardinality(uploading') <= BagCardinality(uploading)
    /\ BagCardinality(listing') <= BagCardinality(listing)

\* The currency query of listing r is absent or empty, or USD in some
\* letter case.
BaseCurrencyAsked(r) ==
    \/ r.currency \in {Undefined, Str("")}
    \/ r.currency \in {Str("USD"), Str("usd"), Str("Usd")}

\* The currency query of listing r is a string: the parameter is given once.
CurrencyIsString(r) == r.currency.t = "string"

\* The doubles of the prices of the model, 100.00 and 19.99, written out.
UsdOf(cents) ==
    CASE cents = 10000 -> [s |-> 1, m |-> <<0, 0, 0, 4608, 1>>, e |-> -46]
      [] cents = 1999 ->
           [s |-> 1, m |-> <<2621, 7864, 7208, 2042, 1>>, e |-> -48]

\* Every plan of listing body b is a stored plan, listed with the number of
\* its stored price as price_usd and with the same number as price_local.
LocalPricesAreUsd(b) ==
    \A i \in 1..Len(b.plans) :
        /\ b.plans[i].price_local = b.plans[i].price_usd
        /\ \E j \in 1..Len(plans) :
             /\ plans[j].id = b.plans[i].id
             /\ b.plans[i].price_usd = UsdOf(plans[j].price_usd)

\* C5: a plan listing whose currency is absent or USD in any letter case,
\* the store answering, has rate 1 and every price_local equal to price_usd
\* (the number of the stored price, of two decimals), and made no call to
\* the rate service.
C5_BaseCurrencyListing ==
    ( /\ req.route = "GET /api/plans"
      /\ req.storeUp
      /\ BaseCurrencyAsked(req) )
    => /\ resp.status = 200
       /\ resp.body.rate = RateScale
       /\ resp.body.base = "USD"
       /\ LocalPricesAreUsd(resp.body)
       /\ outbound = 0

\* A plan of price 100.00 listed for ?currency=usd at 100.00 and rate 1.
C5_Witness ==
    /\ req.route = "GET /api/plans"
    /\ req.currency = Str("usd")
    /\ resp.status = 200
    /\ resp.body.rate = RateScale
    /\ Len(resp.body.plans) > 0
    /\ resp.body.plans[1].price_usd = UsdOf(10000)
    /\ resp.body.plans[1].price_local = UsdOf(10000)

\* C6 as stated: a plan listing in another currency than USD, the rate
\* service not answering, is answered 200 with rate 1 and every price_local
\* equal to price_usd when the store answers, and 500 only when the store
\* fails.
C6_Original ==
    ( /\ req.route = "GET /api/plans"
      /\ ~BaseCurrencyAsked(req)
      /\ ~req.remoteUp )
    => /\ req.storeUp => /\ resp.status = 200
                         /\ resp.body.rate = RateScale
                         /\ LocalPricesAreUsd(resp.body)
       /\ resp.status \in {200, 500}
       /\ resp.status = 500 => ~req.storeUp

\* C6: a plan listing in another currency than USD, the rate service not
\* answering, is answered 200 with rate 1 and every price_local equal to
\* price_usd when the store answers and the currency query is a string;
\* it is answered 500 only when the store fails or the currency query is
\* not a string, and then always, with no call to the rate service.
C6_RateServiceDown ==
    ( /\ req.route = "GET /api/plans"
      /\ ~BaseCurrencyAsked(req)
      /\ ~req.remoteUp )
    => /\ (req.storeUp /\ CurrencyIsString(req))
            => /\ resp.status = 200
               /\ resp.body.rate = RateScale
               /\ LocalPricesAreUsd(resp.body)
       /\ resp.status \in {200, 500}
       /\ resp.status = 500 <=> (~req.storeUp \/ ~CurrencyIsString(req))
       /\ ~CurrencyIsString(req) => outbound = 0

\* A plan of price 19.99 listed in EUR at 19.99 while the rate service was
\* down, the call made.
C6_Witness ==
    /\ req.route = "GET /api/plans"
    /\ req.currency = Str("EUR")
    /\ ~req.remoteUp
    /\ outbound = 1
    /\ resp.status = 200
    /\ Len(resp.body.plans) > 0
    /\ resp.body.plans[1].price_usd = UsdOf(1999)
    /\ resp.body.plans[1].price_local = UsdOf(1999)

\* A required field of plan creation r is absent from the request.
PlanFieldAbsent(r) ==
    \/ r.adminId = Undefined
    \/ r.name = Undefined
    \/ r.price = Undefined
    \/ r.duration = Undefined

\* C9 as stated: POST /api/plans is answered 400 and inserts nothing when
\* adminId, name, price or duration is absent; when all four are present,
\* whatever their values (a price or duration of 0 included) and the store
\* answering, it inserts one plan row with active = 1, the description or
\* the empty string, and returns the row's identifier as planId.
C9_PlanCreation ==
    [][(RequestAnswered /\ req'.route = "POST /api/plans") =>
        IF PlanFieldAbsent(req')
        THEN resp'.status = 400 /\ plans' = plans
        ELSE req'.storeUp =>
               /\ resp'.status = 200
               /\ Len(plans') = Len(plans) + 1
               /\ SubSeq(plans', 1, Len(plans)) = plans
               /\ plans'[Len(plans')].active = 1
               /\ plans'[Len(plans')].description =
                    (IF req'.description = Undefined THEN ""
                     ELSE req'.description.v)
               /\ resp'.body.planId = plans'[Len(plans')].id
      ]_vars

NextSub == Subscribe

SpecSub == Init /\ [][NextSub]_vars

----------------------------------------------------------------------------
(* Properties of subscriptions, checked under SpecSub *)

\* A subscription row references a service or a plan, and not both.
ExactlyOneTarget(row) == (row.service_id = Null) # (row.plan_id = Null)

\* C4: every POST /subscribe answered 200 appends exactly one subscription
\* row; the row references service_id, with plan_id unset, when serviceId is
\* given (alone or with planId), and plan_id, with service_id unset, when
\* only planId is given; and in every state every subscription row has
\* exactly one of service_id and plan_id.
C4_OneTargetPerSubscription ==
    /\ [](\A i \in 1..Len(subscriptions) : ExactlyOneTarget(subscriptions[i]))
    /\ [][(req'.route = "POST /subscribe" /\ resp'.status = 200)
          => /\ Len(subscriptions') = Len(subscriptions) + 1
             /\ SubSeq(subscriptions', 1, Len(subscriptions)) = subscriptions
             /\ LET row == subscriptions'[Len(subscriptions')] IN
                  /\ row.user_id = req'.userId
                  /\ Truthy(req'.serviceId)
                     => row.service_id = req'.serviceId /\ row.plan_id = Null
                  /\ (Falsy(req'.serviceId) /\ Truthy(req'.planId))
                     => row.plan_id = req'.planId /\ row.service_id = Null
         ]_vars

\* {userId: 5, serviceId: 2, planId: 9} left a row for service 2, no plan.
C4_Witness ==
    /\ req.route = "POST /subscribe"
    /\ req.userId = Num(5) /\ req.serviceId = Num(2) /\ req.planId = Num(9)
    /\ resp.status = 200
    /\ Len(subscriptions) > 0
    /\ subscriptions[Len(subscriptions)].service_id = Num(2)
    /\ subscriptions[Len(subscriptions)].plan_id = Null

NextCatalog ==
    \/ CreateService
    \/ ListServices
    \/ LegacyListServices
    \/ CreateAnnouncement
    \/ ListAnnouncements
    \/ LegacyListAnnouncements

SpecCatalog == Init /\ [][NextCatalog]_vars

----------------------------------------------------------------------------
(* Properties of the list routes, checked under SpecCatalog *)

\* C7 as stated: a list route called again with no write request in between
\* returns the rows it returned before, in the same order, rows of equal
\* created_at included.
C7_RepeatedListIsIdentical ==
    ( /\ req.route \in ListRoutes
      /\ resp.status = 200
      /\ lists[req.route] # NotCalled )
    => resp.body.rows = lists[req.route].rows

NextWork == UploadWorkFile \/ UploadWork \/ ListWork

SpecWork == Init /\ [][NextWork]_vars

----------------------------------------------------------------------------
(* Properties of work uploads, checked under SpecWork *)

\* The original names of the model with each run of whitespace replaced by
\* one underscore, written out.
Underscored(originalname) ==
    CASE originalname = <<"a", " ", "\t", "b", " ">> -> <<"a", "_", "b", "_">>

\* C8: the file part of a POST /api/work is stored in the uploads
\* directory under '<Date.now()>-<original name, each whitespace run
\* replaced by _>'; every POST /api/work answered 200 appends one work row
\* whose file_path is null when no file was attached, and otherwise that
\* generated name, which is the name of a file in the uploads directory;
\* rows never change, and a GET /api/work answered 200 returns every row
\* with its file_path.
C8_FilePathIsGeneratedName ==
    /\ [][\A u \in BagToSet(uploading') :
            (uploading' = With(uploading, u) /\ HasFile(u.r))
            => /\ u.r.file.filename =
                    <<ToString(dateNow'), "-">>
                    \o Underscored(u.r.file.originalname)
               /\ u.r.file.filename \in uploads'
         ]_vars
    /\ [][(RequestAnswered /\ req'.route = "POST /api/work"
           /\ resp'.status = 200)
          => /\ Len(work') = Len(work) + 1
             /\ LET row == work'[Len(work')] IN
                  IF req'.file = Undefined
                  THEN row.file_path = Null
                  ELSE /\ row.file_path = Str(req'.file.filename)
                       /\ \E t \in 0..dateNow' :
                            row.file_path =
                              Str(<<ToString(t), "-">>
                                  \o Underscored(req'.file.originalname))
                       /\ row.file_path.v \in uploads'
         ]_vars
    /\ [][\A i \in 1..Len(work) : Len(work') >= i /\ work'[i] = work[i]]_vars
    /\ []( (req.route = "GET /api/work" /\ resp.status = 200)
           => /\ Len(resp.body.rows) = Len(work)
              /\ \A i \in 1..Len(work) :
                   \E j \in 1..Len(resp.body.rows) :
                       /\ resp.body.rows[j].id = work[i].id
                       /\ resp.body.rows[j].file_path = work[i].file_path )

\* GET /api/work lists an upload of 'a \tb ' named at millisecond 1 as
\* 1-a_b_, and an upload without a file.
C8_Witness ==
    /\ req.route = "GET /api/work"
    /\ resp.status = 200
    /\ \E j \in 1..Len(resp.body.rows) :
         resp.body.rows[j].file_path = Str(<<"1", "-", "a", "_", "b", "_">>)
    /\ \E j \in 1..Len(resp.body.rows) : resp.body.rows[j].file_path = Null
    /\ <<"1", "-", "a", "_", "b", "_">> \in uploads

\* The messages of the 400 responses to missing required fields.
ValidationMessages ==
    {"All fields are required", "Email and password required",
     "adminId, name, price and duration are required", "All fields required",
     "content and adminId required",
     "title, description and adminId required",
     "userId and serviceId or planId required"}

\* C10 as stated: a request answered 400 for missing required fields leaves
\* every table and the uploads directory as they were before it: the step
\* that answers it adds no row, and no file was created for it.
C10_ValidationErrorWritesNothing ==
    [][(RequestAnswered /\ resp'.status = 400
        /\ resp'.body.message \in ValidationMessages)
       => /\ UNCHANGED store
          /\ \A u \in BagToSet(uploading) :
               ( /\ uploading' = Without(uploading, u)
                 /\ \E up \in BOOLEAN : Handled(u.r, up) = req' )
               => ~u.created
      ]_vars

\* The whole server.
Next ==
    \/ Register
    \/ Login
    \/ CreatePlan
    \/ ListPlans
    \/ ListPlansAnswer
    \/ Subscribe
    \/ CreateService
    \/ ListServices
    \/ LegacyListServices
    \/ CreateAnnouncement
    \/ ListAnnouncements
    \/ LegacyListAnnouncements
    \/ UploadWorkFile
    \/ UploadWork
    \/ ListWork

Spec == Init /\ [][Next]_vars

====
